---------------------------- MODULE Spec2Model ----------------------------
(***************************************************************************)
(* One run of download_website for one page, by either downloader class:   *)
(* WebsiteDownloader (src/website_downloader.py, "WD") or                  *)
(* MusicianDownloader (src/download_musician.py, "MD").                    *)
(*                                                                         *)
(* asyncio runs one coroutine at a time and switches only at an await, so  *)
(* every action below is the code between two suspension points.  Tasks    *)
(* handed to asyncio.gather all run their first segment (up to the first   *)
(* session.get) before the event loop polls the network, so the segment    *)
(* that allocates the local path of every task is one action, StartFetch.  *)
(***************************************************************************)
EXTENDS Integers, Sequences, FiniteSets, TLC

VARIABLES
    dl,                 \* what runs: "WD" or "MD" (download_website of
                        \* either class), "split" (split_html.py),
                        \* "site" (download_complete_site.py)
    doc,                \* the rendered page: a sequence of resource references
    pc,                 \* position of download_website
    raised,             \* an exception left download_website
    browser,            \* "none", "open", "closed"
    resources,          \* the set collect_resources returned
    tasks,              \* fetch tasks, one per element of resources
    downloaded_urls,    \* self.downloaded_urls
    resource_mapping,   \* self.resource_mapping: URL -> local path
    resources_to_download, \* self.resources_to_download (WD only)
    files,              \* the output directory: local path -> body written
    dirs,               \* sub-directories created under the output root
    processed_html,     \* download_website's local: what process_html returned
    indexHtml,          \* the document written to index.html, << >> if none
    faults,             \* the stages of download_website that raised so far
    dry_run,            \* split_html.py: the --dry-run flag
    requested,          \* split_html.py: the URLs requests.get was called with
    page,               \* download_complete_site: position in the pages table
    saved               \* download_complete_site: page -> the files saved for it

vars == << dl, doc, pc, raised, browser, resources, tasks, downloaded_urls,
           resource_mapping, resources_to_download, files, dirs, processed_html,
           indexHtml, faults, dry_run, requested, page, saved >>

\* the variables of split_html.py and download_complete_site.py
others == << dry_run, requested, page, saved >>

(***************************************************************************)
(* Bounds of the model.                                                    *)
(***************************************************************************)
\* references in the page
MaxRefs == 2

(***************************************************************************)
(* URLs.  A URL string is modelled by its parts: form ("abs" for           *)
(* https://host/..., "root" for /..., "data" for data:...), host, the      *)
(* directory part of the path (<< >> for a path that is /basename), the    *)
(* stem and extension of the path's basename, and the value of a t=<n>     *)
(* query parameter (0: none).                                              *)
(***************************************************************************)
TildaHost == "static.tildacdn.net"
ThumbHost == "thb.tildacdn.net"
OtherHost == "cdn.example.com"
BaseHost == "aborovikov.com"

AbsUrl(h, s, e, t) ==
    [form |-> "abs", host |-> h, dir |-> << >>, stem |-> s, ext |-> e, ts |-> t]
RootUrl(s, e, t) ==
    [form |-> "root", host |-> "", dir |-> << >>, stem |-> s, ext |-> e, ts |-> t]
DataUrl ==
    [form |-> "data", host |-> "", dir |-> << >>, stem |-> "", ext |-> "", ts |-> 0]
base_url == AbsUrl(BaseHost, "", "", 0)

\* url.startswith('http')
StartsWithHttp(u) == u.form = "abs"
\* url.startswith('/')
StartsWithSlash(u) == u.form = "root"
\* url.startswith('data:')
IsData(u) == u.form = "data"
\* 'tilda' in url.lower(): of the model's strings only the CDN hosts hold it
ContainsTilda(u) == u.host \in {TildaHost, ThumbHost}

\* f"https://static.tildacdn.net{url}"
PrefixTilda(u) == [u EXCEPT !.form = "abs", !.host = TildaHost]

\* re.sub(r't=\d+', '', url).rstrip('?&')
StripTimestamp(u) == [u EXCEPT !.ts = 0]

\* urljoin(self.base_url, url)
UrlJoin(u) == IF u.form = "root" THEN [u EXCEPT !.form = "abs", !.host = BaseHost]
              ELSE u

\* download_resource's clean-up of its url argument
Normalize(u) ==
    LET u1 == IF StartsWithSlash(u) THEN PrefixTilda(u) ELSE u
    IN  IF u1.ts # 0 THEN StripTimestamp(u1) ELSE u1

(***************************************************************************)
(* Local paths: sub-directory, stem, digest suffix (0: none), extension.   *)
(***************************************************************************)
NoPath == [subdir |-> "", stem |-> "", hash |-> 0, ext |-> ""]
Path(d, s, h, e) == [subdir |-> d, stem |-> s, hash |-> h, ext |-> e]

HostNo(h) == CASE h = "" -> 0 [] h = TildaHost -> 1 [] h = OtherHost -> 2
               [] h = ThumbHost -> 3 [] OTHER -> 4
ExtNo(e) == CASE e = "" -> 0 [] e = ".js" -> 1 [] e = ".png" -> 2 [] e = ".jpg" -> 3
              [] e = ".png 1x" -> 4 [] e = ".png 2x" -> 5 [] OTHER -> 6
StemNo(s) == CASE s = "" -> 0 [] s = "zoom" -> 1 [] s = "zoom2" -> 2 [] OTHER -> 3
FormNo(f) == CASE f = "abs" -> 0 [] f = "root" -> 1 [] OTHER -> 2
DescNo(d) == CASE d = "" -> 0 [] d = "1x" -> 1 [] d = "2x" -> 2 [] OTHER -> 3
DirNo(d) == IF d = << >> THEN 0
            ELSE 1 + StemNo(d[1]) + 4 * ExtNo(d[2]) + 32 * DescNo(d[3])
                   + 128 * HostNo(d[4])

\* hashlib.md5(url.encode()).hexdigest()[:8], as a number that differs for
\* the different URLs of the model (as their MD5 prefixes do)
Md5Prefix(u) ==
    1 + u.ts + 4 * ExtNo(u.ext) + 32 * HostNo(u.host) + 256 * FormNo(u.form)
      + 1024 * StemNo(u.stem) + 4096 * DirNo(u.dir)

\* mimetypes.guess_type(url)[0]; "" stands for None.  Of a data: URL it
\* returns the media type the URL states (the model's holds an image).
GuessType(u) == CASE IsData(u) -> "image/png"
                  [] u.ext = ".js" -> "text/javascript"
                  [] u.ext = ".png" -> "image/png"
                  [] u.ext = ".jpg" -> "image/jpeg"
                  [] OTHER -> ""

\* mimetypes.guess_extension(content_type) or '.jpg'
GuessExtension(ct) == IF ct = "image/png" THEN ".png" ELSE ".jpg"

\* WebsiteDownloader.get_file_type_info(content_type, path): << subdir, ext >>,
\* << "", "" >> for (None, None)
WDFileTypeInfo(ct, ext) ==
    IF ct # ""
    THEN CASE ct \in {"image/png", "image/jpeg"} -> << "images", GuessExtension(ct) >>
           [] ct = "text/css" -> << "css", ".css" >>
           [] ct = "text/javascript" -> << "js", ".js" >>
           [] OTHER -> << "other", "" >>
    ELSE CASE ext = ".css" -> << "css", ext >>
           [] ext = ".js" -> << "js", ext >>
           [] ext \in {".png", ".jpg", ".jpeg", ".gif", ".svg", ".webp", ".ico"}
                -> << "images", ext >>
           [] ext \in {".woff", ".woff2", ".ttf", ".eot", ".otf"} -> << "fonts", ext >>
           [] OTHER -> << "", "" >>

Values(m) == { m[k] : k \in DOMAIN m }

\* resource_mapping[url] = local_path
MapPut(m, u, p) == [k \in DOMAIN m \cup {u} |-> IF k = u THEN p ELSE m[k]]

(***************************************************************************)
(* The page.  A reference is an element kind ("script": script src,        *)
(* "img": img src, "style": an inline style with background-image:url(..), *)
(* "source": a source element with a srcset) and the URL written in it.    *)
(* parts holds what else the attribute's string is made of: for a style,   *)
(* the texts that follow the background-image, each inside a url(..) of    *)
(* another property (desc "url") or bare (desc "text"); for a srcset, its  *)
(* comma-separated entries, each a URL and a descriptor ("": none).        *)
(***************************************************************************)
Ref(k, u) == [kind |-> k, url |-> u, parts |-> << >>]

Part(u, d) == [url |-> u, desc |-> d]

\* the extension os.path.splitext finds at the end of "<basename> <desc>"
ExtDesc(e, d) == CASE d = "" -> e
                   [] e = ".png" /\ d = "1x" -> ".png 1x"
                   [] e = ".png" /\ d = "2x" -> ".png 2x"
                   [] OTHER -> ".?"

\* element.get_attribute('srcset') read as one URL, the way urlparse splits
\* it: scheme and host of the first entry, basename and extension from the
\* end of the string, and the rest as the directory part of the path
SrcsetString(es) ==
    IF Len(es) = 1 /\ es[1].desc = "" THEN es[1].url
    ELSE LET f == es[1]
             l == es[Len(es)]
         IN  [form |-> f.url.form, host |-> f.url.host,
              dir |-> IF Len(es) = 1 THEN << >>
                      ELSE << f.url.stem, f.url.ext, f.desc, l.url.host >>,
              stem |-> l.url.stem, ext |-> ExtDesc(l.url.ext, l.desc), ts |-> 0]

\* <source srcset="...">
Source(es) == [kind |-> "source", url |-> SrcsetString(es), parts |-> es]

\* style="background-image:url(u); ..."
Style(u, ps) == [kind |-> "style", url |-> u, parts |-> ps]

ElementList ==
    << Ref("script", AbsUrl(TildaHost, "zoom", ".js", 0)),
       Ref("script", RootUrl("zoom", ".js", 0)),
       Ref("img", AbsUrl(TildaHost, "zoom", ".png", 0)),
       Ref("img", AbsUrl(OtherHost, "zoom", ".png", 0)),
       Ref("img", AbsUrl(TildaHost, "zoom", ".png", 1)),
       Ref("img", RootUrl("zoom", ".png", 0)),
       Ref("style", AbsUrl(OtherHost, "zoom", ".png", 0)),
       Ref("style", RootUrl("zoom", ".png", 0)),
       Ref("img", DataUrl),
       Ref("img", AbsUrl(OtherHost, "page", "", 0)) >>

RECURSIVE Pick(_, _)
Pick(S, i) ==
    IF i > Len(ElementList) THEN << >>
    ELSE (IF i \in S THEN << ElementList[i] >> ELSE << >>) \o Pick(S, i + 1)

\* the pages of the model: up to MaxRefs references, in document order
Docs == { Pick(S, 1) : S \in { T \in SUBSET (1 .. Len(ElementList)) :
                                 Cardinality(T) \in 1 .. MaxRefs } }

\* files found in the output directory before the run
OldFiles == { Path("images", "zoom", 0, ".png") }

\* Pages with one source element, alone or beside an img that names the URL
\* of one of its entries.
SrcsetList ==
    LET e1 == Part(AbsUrl(OtherHost, "zoom", ".png", 0), "1x")
        e2 == Part(AbsUrl(OtherHost, "zoom2", ".png", 0), "2x")
        e3 == Part(AbsUrl(OtherHost, "zoom2", ".png", 0), "")
    IN  { << e1 >>, << e3 >>, << e1, e2 >>, << e2, e1 >>, << e1, e3 >> }

SrcsetDocs ==
    { << Source(es) >> : es \in SrcsetList }
      \cup UNION { { << Source(es), Ref("img", es[i].url) >> : i \in DOMAIN es } :
                   es \in SrcsetList }

\* Pages with one inline style whose string holds more than its
\* background-image.
StyleDocs ==
    LET u == AbsUrl(OtherHost, "zoom", ".png", 0)
        v == AbsUrl(OtherHost, "zoom2", ".png", 0)
    IN  { << Style(u, << Part(u, "url") >>) >>,
          << Style(u, << Part(u, "text") >>) >>,
          << Style(u, << Part(AbsUrl(OtherHost, "zoom", ".png", 1), "url") >>) >>,
          << Style(u, << Part(v, "url") >>) >>,
          << Style(u, << Part(v, "text") >>) >> }

\* Pages with one image, of the thumbnail host or of another.
ThumbDocs ==
    { << Ref("img", AbsUrl(h, "zoom", e, 0)) >> :
         h \in {ThumbHost, OtherHost}, e \in {".jpg", ".png"} }

AttrDocs == SrcsetDocs \cup StyleDocs \cup ThumbDocs

NoTasks == [u \in {} |-> NoPath]
NoMapping == [u \in {} |-> NoPath]
NoFiles == [p \in {} |-> ""]

\* the state download_website starts in, for a page of the set D
InitWith(D) ==
    /\ dl \in {"WD", "MD"}
    /\ doc \in D
    /\ pc = "new"
    /\ raised = FALSE
    /\ browser = "none"
    /\ resources = {}
    /\ tasks = NoTasks
    /\ downloaded_urls = {}
    /\ resource_mapping = NoMapping
    /\ resources_to_download = {}
    /\ \E old \in SUBSET OldFiles : files = [p \in old |-> "old"]
    /\ dirs = { p.subdir : p \in DOMAIN files }
    /\ processed_html = << >>
    /\ indexHtml = << >>
    /\ faults = {}
    /\ dry_run = FALSE
    /\ requested = {}
    /\ page = 0
    /\ saved = << >>

Init == InitWith(Docs)

\* the runs on the pages with srcsets, richer styles and thumbnails
AttrInit == InitWith(AttrDocs)

(***************************************************************************)
(* Resource discovery.                                                     *)
(***************************************************************************)
\* extract_urls_from_style(style), for a style holding url(u)
extract_urls_from_style(u) ==
    IF IsData(u) THEN {}
    ELSE IF StartsWithHttp(u) THEN {u}
    ELSE {UrlJoin(u)}

\* the url(..) occurrences of the style of element e
StyleUrls(e) ==
    {e.url} \cup { e.parts[i].url : i \in { j \in DOMAIN e.parts : e.parts[j].desc = "url" } }

\* what collect_resources adds for one element of the page: the URLs of a
\* style's url(..) occurrences, and the value of any other attribute as it
\* is written (for a srcset: the whole string)
Discover(e) ==
    IF e.kind = "style" THEN UNION { extract_urls_from_style(u) : u \in StyleUrls(e) }
    ELSE {e.url}

\* element.is_visible(), which MusicianDownloader asks before reading an
\* element: a source and a script element have no box; the other elements of
\* the model's pages are visible
Visible(e) == e.kind \notin {"source", "script"}

\* the URLs the browser may load for element e
LoadUrls(e) ==
    CASE e.kind = "source" -> { e.parts[i].url : i \in DOMAIN e.parts }
      [] e.kind = "style" -> StyleUrls(e)
      [] OTHER -> {e.url}

\* the URLs Page.getResourceTree may report as Script, Stylesheet, Image or
\* Font: the references the browser loaded, in absolute form
BrowserUrls(d) ==
    { UrlJoin(u) : u \in { v \in UNION { LoadUrls(d[i]) : i \in DOMAIN d } : ~IsData(v) } }

\* collect_required_scripts' essential_resources.  The code lists twelve
\* fixed stylesheets and scripts of static.tildacdn.com; each gets a fetch
\* task of its own, under a key no page of the model references and a
\* digest-suffixed path of its own.  The runs of the model follow the tasks
\* of the page's references only.
essential_resources == {}

\* MusicianDownloader.collect_required_scripts: the page's scripts and
\* stylesheets that name tilda, and the essential resources
collect_required_scripts(d) ==
    { d[i].url : i \in { j \in DOMAIN d : d[j].kind = "script" /\ ContainsTilda(d[j].url) } }
      \cup essential_resources

\* collect_resources(page), net being the resource tree's URLs
collect_resources(d, net) ==
    (IF dl = "MD" THEN collect_required_scripts(d) ELSE {})
      \cup net
      \cup UNION { Discover(d[i]) :
                     i \in { j \in DOMAIN d : dl = "MD" => Visible(d[j]) } }

(***************************************************************************)
(* Fetch tasks.  st is the task's position: "get" (a GET is in flight),    *)
(* "sleep" (in asyncio.sleep before the next attempt), "loop" (leaving the *)
(* response's async with block, on the way back to the loop test), "done". *)
(* gets counts the GET requests issued (it stops counting at               *)
(* max_retries + 1), last is the last answer received, probe is the size   *)
(* the HEAD probe of is_thumbnail reported (NoProbe: no probe answered),   *)
(* and outcome is how the task ended.  A task that returned has no locals: *)
(* its retries field is 0.                                                 *)
(***************************************************************************)
max_retries == 3
retries_init == 3

\* is_thumbnail: size < 5 * 1024
ThumbLimit == 5 * 1024

NoProbe == -1

\* the content-length values a HEAD probe reports in the model
ProbeSizes == {3 * 1024, 5 * 1024, 50 * 1024}

\* MusicianDownloader.is_thumbnail(url), size being the probe's content-length
\* (NoProbe: the probe raised)
MDIsThumbnail(size) == size # NoProbe /\ size < ThumbLimit

\* one more GET request issued
CountGet(g) == IF g <= max_retries THEN g + 1 ELSE g

Task(url, path, st, attempt, retries, gets, last, outcome) ==
    [url |-> url, path |-> path, st |-> st, attempt |-> attempt,
     retries |-> retries, gets |-> gets, last |-> last, outcome |-> outcome,
     probe |-> NoProbe]

\* 'thb.tildacdn.net' in url or '/20x/' in url or '/-/resize' in url: of the
\* model's strings only the thumbnail host matches
WDIsThumbnail(u) == u.host = ThumbHost

\* WDLocalPath with the digest taken of the URL as discovered instead of the
\* cleaned URL
WDLocalPathRawDigest(raw, url, m, fs) ==
    LET stem == IF raw.stem = "" /\ raw.ext = "" THEN "index" ELSE raw.stem
        ti == WDFileTypeInfo(GuessType(url), raw.ext)
        plain == Path(ti[1], stem, 0, ti[2])
        hashed == Path(ti[1], stem, Md5Prefix(raw), ti[2])
    IN  IF plain \in DOMAIN fs \/ plain \in Values(m) THEN hashed ELSE plain

\* the local path download_resource allocates for url (raw: as discovered),
\* given the mapping m and the files fs present when it runs
WDLocalPath(raw, url, m, fs) ==
    LET stem == IF raw.stem = "" /\ raw.ext = "" THEN "index" ELSE raw.stem
        ti == WDFileTypeInfo(GuessType(url), raw.ext)
        subdir == IF WDIsThumbnail(url) /\ ti[1] = "images" THEN "images/thumbnails"
                  ELSE ti[1]
        plain == Path(subdir, stem, 0, ti[2])
        hashed == Path(subdir, stem, Md5Prefix(url), ti[2])
    IN  IF stem = "noroot" /\ raw.ext = ".png" THEN hashed
        ELSE IF plain \in DOMAIN fs \/ plain \in Values(m) THEN hashed
        ELSE plain

\* WDStart without the test url.startswith('data:')
WDStartNoDataTest(raw, m, fs, dled) ==
    LET url == Normalize(raw)
        ti == WDFileTypeInfo(GuessType(url), raw.ext)
    IN  IF url = base_url \/ ti[1] = ""
        THEN Task(url, NoPath, "done", 0, 0, 0, "", "Skipped")
        ELSE IF url \notin dled
        THEN Task(url, WDLocalPath(raw, url, m, fs), "get", 0, 0, 1, "", "")
        ELSE Task(url, WDLocalPath(raw, url, m, fs), "done", 0, 0, 0, "", "Skipped")

\* download_resource up to its first await: the task as it waits for its
\* first GET, or as it returned without one
WDStart(raw, m, fs, dled) ==
    LET url == Normalize(raw)
        ti == WDFileTypeInfo(GuessType(url), raw.ext)
    IN  IF url = base_url \/ IsData(url) \/ ti[1] = ""
        THEN Task(url, NoPath, "done", 0, 0, 0, "", "Skipped")
        ELSE IF url \notin dled
        THEN Task(url, WDLocalPath(raw, url, m, fs), "get", 0, 0, 1, "", "")
        ELSE Task(url, WDLocalPath(raw, url, m, fs), "done", 0, 0, 0, "", "Skipped")

\* download_single_resource up to its first await
MDStart(raw, m) ==
    IF IsData(raw) \/ raw \in DOMAIN m
    THEN Task(raw, NoPath, "done", 0, 0, 0, "", "Skipped")
    ELSE Task(raw, NoPath, "get", 0, retries_init, 1, "", "")

\* download_resources launches no task for a data: URL
MDLaunched(rs) == { u \in rs : ~IsData(u) }

\* MusicianDownloader.get_local_path(url), is_thumb being is_thumbnail's answer
MDLocalPath(u, is_thumb) ==
    LET subdir == CASE u.ext \in {".css", ".scss"} -> "css"
                    [] u.ext \in {".js", ".jsx", ".ts"} -> "js"
                    [] u.ext \in {".jpg", ".jpeg", ".png", ".gif", ".webp", ".svg"} ->
                         IF is_thumb THEN "images/thumbnails" ELSE "images"
                    [] u.ext \in {".woff", ".woff2", ".ttf", ".eot"} -> "fonts"
                    [] OTHER -> "other"
    IN  Path(subdir, u.stem, Md5Prefix(u), u.ext)

MDIsImage(u) == u.ext \in {".jpg", ".jpeg", ".png", ".gif", ".webp", ".svg"}

\* What one GET can end in: "ok" (200 with a body), "empty" (200, no body),
\* "404", "500" (any other status), "err" (an exception: timeout, connection
\* error, invalid URL).  A URL with no scheme and host is refused by the
\* client before any request.
Answers(u) == IF u.form = "abs" THEN {"ok", "empty", "404", "500", "err"} ELSE {"err"}

StartFetch ==
    /\ pc = "fetch"
    /\ pc' = "gather"
    /\ tasks' = IF dl = "WD"
                THEN [u \in resources |->
                        WDStart(u, resource_mapping, files, downloaded_urls)]
                ELSE [u \in MDLaunched(resources) |-> MDStart(u, resource_mapping)]
    /\ dirs' = IF dl = "WD"
               THEN dirs \cup { tasks'[u].path.subdir :
                                u \in { v \in resources : tasks'[v].path # NoPath } }
               ELSE dirs
    /\ UNCHANGED << others, dl, doc, faults, raised, browser, resources, downloaded_urls,
                    resource_mapping, resources_to_download, files,
                    processed_html, indexHtml >>

\* WebsiteDownloader.download_resource: the answer r to the GET of task u
\* arrives, and the task runs to its next await or to its return.  A task
\* runs whenever it has not returned, wherever download_website stands.
WDAfterAnswer(t, r) ==
    IF r \in {"ok", "empty"}
    THEN [t EXCEPT !.st = "done", !.last = r, !.outcome = "Saved"]
    ELSE IF r = "err"
    THEN IF t.attempt = max_retries - 1
         THEN [t EXCEPT !.st = "done", !.last = r, !.outcome = "Failed"]
         ELSE [t EXCEPT !.st = "sleep", !.last = r]
    ELSE IF t.attempt + 1 < max_retries
         THEN [t EXCEPT !.attempt = @ + 1, !.gets = CountGet(@), !.last = r]
         ELSE [t EXCEPT !.st = "done", !.last = r,
                        !.outcome = IF r = "404" THEN "NotFound" ELSE "Failed"]

WDResponse(u, r) ==
    /\ dl = "WD"
    /\ tasks[u].st = "get"
    /\ r \in Answers(tasks[u].url)
    /\ tasks' = [tasks EXCEPT ![u] = WDAfterAnswer(@, r)]
    /\ IF r \in {"ok", "empty"}
       THEN /\ files' = MapPut(files, tasks[u].path, IF r = "ok" THEN "data" ELSE "empty")
            /\ downloaded_urls' = downloaded_urls \cup {tasks[u].url}
            /\ resource_mapping' = MapPut(resource_mapping, tasks[u].url, tasks[u].path)
       ELSE UNCHANGED << files, downloaded_urls, resource_mapping >>
    /\ UNCHANGED << others, dl, doc, faults, pc, raised, browser, resources, resources_to_download,
                    dirs, processed_html, indexHtml >>

\* download_resource after asyncio.sleep(retry_delay): the next attempt
WDWake(u) ==
    /\ dl = "WD"
    /\ tasks[u].st = "sleep"
    /\ tasks' = [tasks EXCEPT ![u] = [@ EXCEPT !.st = "get", !.attempt = @ + 1,
                                                !.gets = CountGet(@)]]
    /\ UNCHANGED << others, dl, doc, faults, pc, raised, browser, resources, downloaded_urls,
                    resource_mapping, resources_to_download, files, dirs,
                    processed_html, indexHtml >>

\* MusicianDownloader.download_single_resource: the answer r arrives
MDAfterAnswer(t, r, size) ==
    CASE r = "ok" -> [t EXCEPT !.st = "done", !.last = r, !.outcome = "Saved",
                               !.retries = 0, !.probe = size,
                               !.path = MDLocalPath(t.url, MDIsThumbnail(size))]
      [] r = "empty" -> [t EXCEPT !.st = "done", !.last = r, !.outcome = "Failed",
                                  !.retries = 0]
      [] r = "404" -> [t EXCEPT !.st = "done", !.last = r, !.outcome = "NotFound",
                                !.retries = 0]
      [] r = "err" -> [t EXCEPT !.st = "sleep", !.last = r, !.retries = @ - 1]
      [] OTHER -> [t EXCEPT !.st = "loop", !.last = r]

\* size: what the HEAD probe of get_local_path reports; only an image whose
\* GET brought a body is probed
MDResponse(u, r, size) ==
    /\ dl = "MD"
    /\ tasks[u].st = "get"
    /\ r \in Answers(tasks[u].url)
    /\ size # NoProbe <=> r = "ok" /\ MDIsImage(tasks[u].url)
    /\ tasks' = [tasks EXCEPT ![u] = MDAfterAnswer(@, r, size)]
    /\ IF r = "ok"
       THEN /\ files' = MapPut(files, tasks'[u].path, "data")
            /\ dirs' = dirs \cup {tasks'[u].path.subdir}
            /\ resource_mapping' = MapPut(resource_mapping, tasks[u].url, tasks'[u].path)
       ELSE UNCHANGED << files, dirs, resource_mapping >>
    /\ UNCHANGED << others, dl, doc, faults, pc, raised, browser, resources, downloaded_urls,
                    resources_to_download, processed_html, indexHtml >>

\* download_single_resource back at its loop test, after asyncio.sleep(1) or
\* after an answer that was neither 200 nor 404: if retries are left, the
\* next GET
MDAfterSleep(t, m) ==
    IF t.retries > 0 /\ t.url \notin DOMAIN m
    THEN [t EXCEPT !.st = "get", !.gets = CountGet(@)]
    ELSE [t EXCEPT !.st = "done", !.retries = 0,
                   !.outcome = IF t.retries > 0 THEN "Skipped" ELSE "Failed"]

MDWake(u) ==
    /\ dl = "MD"
    /\ tasks[u].st \in {"sleep", "loop"}
    /\ tasks' = [tasks EXCEPT ![u] = MDAfterSleep(tasks[u], resource_mapping)]
    /\ UNCHANGED << others, dl, doc, faults, pc, raised, browser, resources, downloaded_urls,
                    resource_mapping, resources_to_download, files, dirs,
                    processed_html, indexHtml >>

\* GatherDone for a wait that returns with the first task that returned
GatherFirstCompleted == \E u \in DOMAIN tasks : tasks[u].st = "done"

\* await asyncio.gather(*tasks) returns once every task has returned
GatherDone == \A u \in DOMAIN tasks : tasks[u].st = "done"

Gather ==
    /\ pc = "gather"
    /\ GatherDone
    /\ pc' = IF dl = "WD" THEN "rewrite" ELSE "content"
    /\ UNCHANGED << others, dl, doc, faults, raised, browser, resources, tasks, downloaded_urls,
                    resource_mapping, resources_to_download, files, dirs,
                    processed_html, indexHtml >>

(***************************************************************************)
(* The rewrite pass.  A reference of the written document keeps its kind   *)
(* and original URL; path is the local path its attribute (or its url(..)) *)
(* now holds, NoPath while it still holds the original URL.  parts is what  *)
(* the rest of the attribute's string now holds, piece by piece: the piece  *)
(* as it was in the page (url, desc) and the local path that now stands in  *)
(* it for the URL's text, NoPath while the piece is as it was.              *)
(***************************************************************************)
OutPart(u, p, d) == [url |-> u, path |-> p, desc |-> d]

\* the pieces ps, each as it was
Kept(ps) == [i \in DOMAIN ps |-> OutPart(ps[i].url, NoPath, ps[i].desc)]

Out(e, p) == [kind |-> e.kind, url |-> e.url, path |-> p, parts |-> Kept(e.parts)]

\* the URL WebsiteDownloader.process_html derives from a tilda script's src
WDScriptUrl(src) == IF StartsWithHttp(src) THEN src ELSE PrefixTilda(src)

\* f"js/{os.path.basename(urlparse(url).path)}"
WDScriptPath(url) == Path("js", url.stem, 0, url.ext)

\* whether process_html's first loop registers the script element e
WDRegisters(e, m) ==
    e.kind = "script" /\ ContainsTilda(e.url) /\ WDScriptUrl(e.url) \notin DOMAIN m

\* WebsiteDownloader.process_html, first loop ("Remove Tilda-specific
\* scripts"), from element i on: the mapping it leaves
RECURSIVE WDScriptPassMap(_, _, _)
WDScriptPassMap(d, i, m) ==
    IF i > Len(d) THEN m
    ELSE IF WDRegisters(d[i], m)
    THEN WDScriptPassMap(d, i + 1,
                         MapPut(m, WDScriptUrl(d[i].url), WDScriptPath(WDScriptUrl(d[i].url))))
    ELSE WDScriptPassMap(d, i + 1, m)

\* the same loop: the src attributes it leaves, as a sequence of paths
RECURSIVE WDScriptPassDoc(_, _, _)
WDScriptPassDoc(d, i, m) ==
    IF i > Len(d) THEN << >>
    ELSE IF WDRegisters(d[i], m)
    THEN << WDScriptPath(WDScriptUrl(d[i].url)) >>
           \o WDScriptPassDoc(d, i + 1,
                 MapPut(m, WDScriptUrl(d[i].url), WDScriptPath(WDScriptUrl(d[i].url))))
    ELSE << NoPath >> \o WDScriptPassDoc(d, i + 1, m)

\* the mapping WebsiteDownloader.process_html leaves
WDProcessMap(d, m) == WDScriptPassMap(d, 1, m)

\* the table loop and the inline-style loop of process_html for one
\* reference whose attribute still holds its URL: replaced when the URL, as
\* written in the page, is a key of the mapping
Substitute(e, m) == IF e.url \in DOMAIN m THEN m[e.url] ELSE NoPath

\* process_html's srcset branch, from entry i on: new_srcset, the entries
\* whose URL is a key of the mapping, as f"{path} {desc}"
RECURSIVE NewSrcset(_, _, _)
NewSrcset(es, i, m) ==
    IF i > Len(es) THEN << >>
    ELSE (IF es[i].url \in DOMAIN m
          THEN << OutPart(es[i].url, m[es[i].url], es[i].desc) >>
          ELSE << >>) \o NewSrcset(es, i + 1, m)

\* process_html on a source element: the srcset is set to new_srcset if that
\* holds an entry; then the attribute's string, if it is a key of the
\* mapping, is replaced by the mapped path
SourceOut(e, m) ==
    LET new == NewSrcset(e.parts, 1, m)
    IN  IF new # << >>
        THEN [kind |-> e.kind, url |-> e.url, path |-> NoPath, parts |-> new]
        ELSE IF e.url \in DOMAIN m
        THEN [kind |-> e.kind, url |-> e.url, path |-> m[e.url], parts |-> << >>]
        ELSE Out(e, NoPath)

\* the string of URL v holds the string of URL u
TextContains(v, u) == v = u \/ (u.ts = 0 /\ [v EXCEPT !.ts = 0] = u)

\* process_html on an inline style: style.replace(original_url, new_url) when
\* the URL of the background-image is a key of the mapping
StyleOut(e, m) ==
    IF e.url \in DOMAIN m
    THEN [kind |-> e.kind, url |-> e.url, path |-> m[e.url],
          parts |-> [i \in DOMAIN e.parts |->
                       OutPart(e.parts[i].url,
                               IF TextContains(e.parts[i].url, e.url)
                               THEN m[e.url] ELSE NoPath,
                               e.parts[i].desc)]]
    ELSE Out(e, NoPath)

\* process_html on one element whose attribute still holds what the page had
ElementOut(e, m) ==
    CASE e.kind = "source" -> SourceOut(e, m)
      [] e.kind = "style" -> StyleOut(e, m)
      [] OTHER -> Out(e, Substitute(e, m))

\* the document WebsiteDownloader.process_html returns
WDProcessDoc(d, m) ==
    LET m1 == WDProcessMap(d, m)
        first == WDScriptPassDoc(d, 1, m)
    IN  [i \in 1 .. Len(d) |->
           IF first[i] # NoPath THEN Out(d[i], first[i]) ELSE ElementOut(d[i], m1)]

\* the mapping MusicianDownloader.process_html leaves
MDProcessMap(d, m) == m

\* the document MusicianDownloader.process_html returns
MDProcessDoc(d, m) == [i \in 1 .. Len(d) |-> ElementOut(d[i], m)]

\* self.resources_to_download after WebsiteDownloader.process_html
WDProcessQueue(d, m, q) == q \cup (DOMAIN WDProcessMap(d, m) \ DOMAIN m)

ProcessHtml ==
    /\ pc \in {"rewrite", "xrewrite"}
    /\ pc' = IF pc = "rewrite" THEN "save" ELSE "xsave"
    /\ processed_html' = IF dl = "WD" THEN WDProcessDoc(doc, resource_mapping)
                         ELSE MDProcessDoc(doc, resource_mapping)
    /\ resource_mapping' = IF dl = "WD" THEN WDProcessMap(doc, resource_mapping)
                           ELSE MDProcessMap(doc, resource_mapping)
    /\ resources_to_download' =
         IF dl = "WD" THEN WDProcessQueue(doc, resource_mapping, resources_to_download)
         ELSE resources_to_download
    /\ UNCHANGED << others, dl, doc, faults, raised, browser, resources, tasks, downloaded_urls,
                    files, dirs, indexHtml >>

(***************************************************************************)
(* download_website.  A stage that raises sends WebsiteDownloader to its   *)
(* except block ("except") and MusicianDownloader out through finally.     *)
(***************************************************************************)
\* where control goes when a stage inside the try block raises
Raise(stage) ==
    /\ faults' = faults \cup {stage}
    /\ IF dl = "WD"
       THEN /\ pc' = "except"
            /\ raised' = raised
       ELSE /\ pc' = "close"
            /\ raised' = TRUE

\* MD: shutil.rmtree(output_dir), os.makedirs(output_dir); both: launch
Launch ==
    /\ pc = "new"
    /\ pc' = "goto"
    /\ browser' = "open"
    /\ files' = IF dl = "MD" THEN NoFiles ELSE files
    /\ dirs' = IF dl = "MD" THEN {} ELSE dirs
    /\ UNCHANGED << others, dl, doc, faults, raised, resources, tasks, downloaded_urls,
                    resource_mapping, resources_to_download, processed_html,
                    indexHtml >>

\* await page.goto(self.base_url)
Goto ==
    /\ pc = "goto"
    /\ \/ pc' = "interact" /\ raised' = raised /\ faults' = faults
       \/ Raise("goto")
    /\ UNCHANGED << others, dl, doc, browser, resources, tasks, downloaded_urls,
                    resource_mapping, resources_to_download, files, dirs,
                    processed_html, indexHtml >>

\* await self.simulate_user_interaction(page): it catches what it raises
Interact ==
    /\ pc = "interact"
    /\ pc' = "collect"
    /\ UNCHANGED << others, dl, doc, faults, raised, browser, resources, tasks, downloaded_urls,
                    resource_mapping, resources_to_download, files, dirs,
                    processed_html, indexHtml >>

\* resources = await self.collect_resources(page); the resource tree lists
\* none or one of the references the browser loaded
Collect ==
    /\ pc = "collect"
    /\ \/ /\ \E net \in {{}} \cup { {b} : b \in BrowserUrls(doc) } :
               resources' = collect_resources(doc, net)
          /\ pc' = IF dl = "WD" THEN "content" ELSE "fetch"
          /\ raised' = raised
          /\ faults' = faults
       \/ Raise("collect") /\ resources' = resources
    /\ UNCHANGED << others, dl, doc, browser, tasks, downloaded_urls, resource_mapping,
                    resources_to_download, files, dirs, processed_html, indexHtml >>

\* content = await page.content(): before the fetch in WD, after it in MD
Content ==
    /\ pc = "content"
    /\ \/ pc' = (IF dl = "WD" THEN "fetch" ELSE "rewrite") /\ raised' = raised
          /\ faults' = faults
       \/ Raise("content")
    /\ UNCHANGED << others, dl, doc, browser, resources, tasks, downloaded_urls,
                    resource_mapping, resources_to_download, files, dirs,
                    processed_html, indexHtml >>

\* writing index.html in the try block
Save ==
    /\ pc = "save"
    /\ \/ indexHtml' = processed_html /\ pc' = "close" /\ raised' = raised
          /\ faults' = faults
       \/ Raise("save") /\ indexHtml' = indexHtml
    /\ UNCHANGED << others, dl, doc, browser, resources, tasks, downloaded_urls,
                    resource_mapping, resources_to_download, files, dirs,
                    processed_html >>

\* WD's except block: content = await page.content(); when that raises, the
\* inner except logs it
ExceptContent ==
    /\ pc = "except"
    /\ \/ pc' = "xrewrite" /\ faults' = faults
       \/ pc' = "close" /\ faults' = faults \cup {"xcontent"}
    /\ UNCHANGED << others, dl, doc, raised, browser, resources, tasks, downloaded_urls,
                    resource_mapping, resources_to_download, files, dirs,
                    processed_html, indexHtml >>

\* WD's except block: writing index.html; a failure is logged
ExceptSave ==
    /\ pc = "xsave"
    /\ pc' = "close"
    /\ \/ indexHtml' = processed_html /\ faults' = faults
       \/ indexHtml' = indexHtml /\ faults' = faults \cup {"xsave"}
    /\ UNCHANGED << others, dl, doc, raised, browser, resources, tasks, downloaded_urls,
                    resource_mapping, resources_to_download, files, dirs,
                    processed_html >>

\* finally: await browser.close()
Close ==
    /\ pc = "close"
    /\ pc' = "done"
    /\ browser' = "closed"
    /\ UNCHANGED << others, dl, doc, faults, raised, resources, tasks, downloaded_urls,
                    resource_mapping, resources_to_download, files, dirs,
                    processed_html, indexHtml >>

Next ==
    \/ Launch
    \/ Goto
    \/ Interact
    \/ Collect
    \/ Content
    \/ StartFetch
    \/ \E u \in DOMAIN tasks : \E r \in {"ok", "empty", "404", "500", "err"} :
         WDResponse(u, r)
    \/ \E u \in DOMAIN tasks : WDWake(u)
    \/ \E u \in DOMAIN tasks : \E r \in {"ok", "empty", "404", "500", "err"} :
         \E size \in ProbeSizes \cup {NoProbe} : MDResponse(u, r, size)
    \/ \E u \in DOMAIN tasks : MDWake(u)
    \/ Gather
    \/ ProcessHtml
    \/ Save
    \/ ExceptContent
    \/ ExceptSave
    \/ Close

Spec == Init /\ [][Next]_vars

\* The runs on the one-reference pages, under the scheduling the event loop
\* and the client's timeouts give: as long as some coroutine can take a step
\* (an answer or a timeout arrives, a sleep ends, a stage returns), one does.
LiveInit == Init /\ Len(doc) = 1

LiveSpec == LiveInit /\ [][Next]_vars /\ WF_vars(Next)

AttrSpec == AttrInit /\ [][Next]_vars

(***************************************************************************)
(* split_html.py: process_html_file splits one saved page into index.html  *)
(* and files under assets/.  The document is a sequence of tags [kind,     *)
(* val]; val is the tag's src / content / href attribute or its inline     *)
(* text.                                                                   *)
(***************************************************************************)
MaxTags == 3

\* a data:image/png;base64 URI whose payload is n
DataUri(n) == [form |-> "data", name |-> n, ext |-> "png"]
Https(n, e) == [form |-> "https", name |-> n, ext |-> e]
Rel(n, e) == [form |-> "rel", name |-> n, ext |-> e]
Text(n) == [form |-> "text", name |-> n, ext |-> ""]
Tag(k, v) == [kind |-> k, val |-> v]

\* hashlib.md5(str(x)).hexdigest()[:8], kept as the digest of its argument
get_safe_filename(x) == [md5 |-> x]

\* the file f'{d}/{get_safe_filename(x)}{e}'
Asset(d, x, e) == [dir |-> d, name |-> get_safe_filename(x), ext |-> e]

\* payloads base64.b64decode accepts; the other one has a wrong padding
Decodable == {"b64ok"}

TagList ==
    << Tag("img", DataUri("b64ok")), Tag("img", DataUri("b64bad")),
       Tag("img", Https("a", ".png")), Tag("meta", Https("og", "")),
       Tag("img", Rel("local", ".png")),
       Tag("style", Text("cssA")), Tag("style", Text("cssFont")),
       Tag("script", Text("jsA")), Tag("script", Rel("lib", ".js")),
       Tag("link", Rel("a", ".css")) >>

SplitDocs ==
    UNION { [1..n -> { TagList[i] : i \in DOMAIN TagList }] : n \in 0..MaxTags }

\* what an earlier run left under assets/
OldAssets == { Asset("assets/images", Text("old"), ".png") }

SplitInit ==
    /\ dl = "split"
    /\ doc \in SplitDocs
    /\ pc = "read"
    /\ dry_run \in BOOLEAN
    /\ requested = {}
    /\ \E old \in SUBSET OldAssets : files = [p \in old |-> Text("old")]
    /\ dirs = IF files = NoFiles THEN {} ELSE {"assets", "assets/images"}
    /\ indexHtml = << >>
    /\ raised = FALSE
    /\ browser = "none"
    /\ resources = {}
    /\ tasks = NoTasks
    /\ downloaded_urls = {}
    /\ resource_mapping = NoMapping
    /\ resources_to_download = {}
    /\ processed_html = << >>
    /\ faults = {}
    /\ page = 0
    /\ saved = << >>

\* the variables split_html.py never touches
downloader == << dl, raised, browser, resources, tasks, downloaded_urls,
                 resource_mapping, resources_to_download, processed_html,
                 faults, page, saved >>

\* shutil.rmtree('assets') if it exists: every file lives under assets/
cleanup_assets(fs) == NoFiles

\* os.makedirs(path) unless it exists, with the directories above it
create_directory(ds, path) ==
    ds \cup {path} \cup (IF path = "assets" THEN {} ELSE {"assets"})

\* open(input_file).read(): the file is read, or the function returns
ReadInput ==
    /\ dl = "split" /\ pc = "read"
    /\ pc' \in {"cleanup", "done"}
    /\ UNCHANGED << downloader, doc, dry_run, requested, files, dirs,
                    indexHtml >>

CleanupAssetsUnguarded ==
    /\ dl = "split" /\ pc = "cleanup"
    /\ files' = cleanup_assets(files)
    /\ dirs' = create_directory({}, "assets")
    /\ pc' = "base64"
    /\ UNCHANGED << downloader, doc, dry_run, requested, indexHtml >>

\* if not dry_run: cleanup_assets(); create_directory('assets')
CleanupAssets ==
    /\ dl = "split" /\ pc = "cleanup"
    /\ IF dry_run
       THEN UNCHANGED << files, dirs >>
       ELSE /\ files' = cleanup_assets(files)
            /\ dirs' = create_directory({}, "assets")
    /\ pc' = "base64"
    /\ UNCHANGED << downloader, doc, dry_run, requested, indexHtml >>

\* the tags of d with a data:image URI whose payload decodes
Base64Images(d) ==
    { i \in DOMAIN d : d[i].val.form = "data" /\ d[i].val.name \in Decodable }

Base64File(v) == Asset("assets/images", Text(v.name), "." \o v.ext)

\* f: the function fs with fs[p] = c for the new files ps |-> c
WriteAll(fs, new) ==
    [p \in DOMAIN fs \cup DOMAIN new |->
        IF p \in DOMAIN new THEN new[p] ELSE fs[p]]

\* extract_base64_images: every decodable data:image URI becomes a file under
\* assets/images and is replaced in the page by the file's name
ExtractBase64Images ==
    /\ dl = "split" /\ pc = "base64"
    /\ IF dry_run
       THEN UNCHANGED << files, dirs, doc >>
       ELSE LET hit == Base64Images(doc)
                new == [p \in { Base64File(doc[i].val) : i \in hit } |->
                           Text(doc[CHOOSE i \in hit :
                                    Base64File(doc[i].val) = p].val.name)]
            IN  /\ dirs' = create_directory(dirs, "assets/images")
                /\ files' = WriteAll(files, new)
                /\ doc' = [i \in DOMAIN doc |->
                             IF i \in hit
                             THEN Tag(doc[i].kind, Base64File(doc[i].val))
                             ELSE doc[i]]
    /\ pc' = "images"
    /\ UNCHANGED << downloader, dry_run, requested, indexHtml >>

\* the meta and img tags whose content / src starts with https://
ExternalImages(d) ==
    { i \in DOMAIN d : /\ d[i].kind \in {"meta", "img"}
                       /\ "form" \in DOMAIN d[i].val
                       /\ d[i].val.form = "https" }

\* os.path.splitext(content)[1] or '.jpg'
ImageFile(v) ==
    Asset("assets/images", v, IF v.ext = "" THEN ".jpg" ELSE v.ext)

\* download_external_images: requests.get for every external image; the
\* ones answered (ok) are written and their tag updated, the others are
\* reported and left alone
DownloadExternalImages ==
    /\ dl = "split" /\ pc = "images"
    /\ IF dry_run
       THEN UNCHANGED << files, dirs, doc, requested >>
       ELSE \E ok \in SUBSET { doc[i].val : i \in ExternalImages(doc) } :
              /\ dirs' = create_directory(dirs, "assets/images")
              /\ requested' =
                    requested \cup { doc[i].val : i \in ExternalImages(doc) }
              /\ files' = WriteAll(files, [p \in { ImageFile(v) : v \in ok } |->
                             CHOOSE v \in ok : ImageFile(v) = p])
              /\ doc' = [i \in DOMAIN doc |->
                           IF i \in ExternalImages(doc) /\ doc[i].val \in ok
                           THEN Tag(doc[i].kind, ImageFile(doc[i].val))
                           ELSE doc[i]]
    /\ pc' = "styles"
    /\ UNCHANGED << downloader, dry_run, indexHtml >>

\* extract_fonts: url(chrome-extension://.../f) becomes url('../fonts/f')
extract_fonts(t) ==
    IF t.name = "cssFont" THEN Text("cssFontLocal") ELSE t

\* the style tags with a non-empty string
StyleBlocks(d) ==
    { i \in DOMAIN d : d[i].kind = "style" /\ d[i].val.name # "" }

StyleFile(v) == Asset("assets/css", extract_fonts(v), ".css")

\* extract_styles: every style block is written under assets/css and
\* replaced by a stylesheet link to the file
ExtractStyles ==
    /\ dl = "split" /\ pc = "styles"
    /\ IF dry_run
       THEN UNCHANGED << files, dirs, doc >>
       ELSE LET hit == StyleBlocks(doc)
                new == [p \in { StyleFile(doc[i].val) : i \in hit } |->
                           extract_fonts(doc[CHOOSE i \in hit :
                                    StyleFile(doc[i].val) = p].val)]
            IN  /\ dirs' = IF hit = {}
                           THEN create_directory(dirs, "assets/css")
                           ELSE create_directory(
                                    create_directory(dirs, "assets/css"),
                                    "assets/fonts")
                /\ files' = WriteAll(files, new)
                /\ doc' = [i \in DOMAIN doc |->
                             IF i \in hit
                             THEN Tag("link", StyleFile(doc[i].val))
                             ELSE doc[i]]
    /\ pc' = "scripts"
    /\ UNCHANGED << downloader, dry_run, requested, indexHtml >>

\* the script tags with a string and no src
InlineScripts(d) ==
    { i \in DOMAIN d : /\ d[i].kind = "script"
                       /\ "form" \in DOMAIN d[i].val
                       /\ d[i].val.form = "text" /\ d[i].val.name # "" }

ScriptFile(v) == Asset("assets/js", v, ".js")

\* extract_scripts: every inline script is written under assets/js and its
\* tag gets the file as src
ExtractScripts ==
    /\ dl = "split" /\ pc = "scripts"
    /\ IF dry_run
       THEN UNCHANGED << files, dirs, doc >>
       ELSE LET hit == InlineScripts(doc)
                new == [p \in { ScriptFile(doc[i].val) : i \in hit } |->
                           doc[CHOOSE i \in hit :
                                    ScriptFile(doc[i].val) = p].val]
            IN  /\ dirs' = create_directory(dirs, "assets/js")
                /\ files' = WriteAll(files, new)
                /\ doc' = [i \in DOMAIN doc |->
                             IF i \in hit
                             THEN Tag("script", ScriptFile(doc[i].val))
                             ELSE doc[i]]
    /\ pc' = "css"
    /\ UNCHANGED << downloader, dry_run, requested, indexHtml >>

\* consolidate_css over the tags d, unique_hrefs being the hrefs met so far:
\* the href is added to the set, then the link is dropped if the href is not
\* in the set
RECURSIVE consolidate_css(_, _, _)
consolidate_css(d, unique_hrefs, dr) ==
    IF d = << >> THEN << >>
    ELSE LET link == Head(d)
         IN  IF link.kind = "link"
             THEN LET hrefs == unique_hrefs \cup {link.val}
                  IN  IF ~dr /\ link.val \notin hrefs
                      THEN consolidate_css(Tail(d), hrefs, dr)
                      ELSE << link >> \o consolidate_css(Tail(d), hrefs, dr)
             ELSE << link >> \o consolidate_css(Tail(d), unique_hrefs, dr)

ConsolidateCss ==
    /\ dl = "split" /\ pc = "css"
    /\ doc' = consolidate_css(doc, {}, dry_run)
    /\ pc' = "write"
    /\ UNCHANGED << downloader, dry_run, requested, files, dirs, indexHtml >>

\* if not dry_run: open('index.html', 'w').write(soup.prettify())
WriteIndex ==
    /\ dl = "split" /\ pc = "write"
    /\ indexHtml' = IF dry_run THEN indexHtml ELSE doc
    /\ pc' = "done"
    /\ UNCHANGED << downloader, doc, dry_run, requested, files, dirs >>

\* a write fails (OSError) in one of the passes of a real run: the except
\* clause of process_html_file reports it and the function returns
ProcessingError ==
    /\ dl = "split" /\ ~dry_run
    /\ pc \in {"base64", "styles", "scripts", "write"}
    /\ pc' = "done"
    /\ UNCHANGED << downloader, doc, dry_run, requested, files, dirs,
                    indexHtml >>

SplitNext ==
    \/ ReadInput
    \/ CleanupAssets
    \/ ExtractBase64Images
    \/ DownloadExternalImages
    \/ ExtractStyles
    \/ ExtractScripts
    \/ ConsolidateCss
    \/ WriteIndex
    \/ ProcessingError

SplitSpec == SplitInit /\ [][SplitNext]_vars

(***************************************************************************)
(* download_complete_site.py: the pages of the table are mirrored one      *)
(* after another into directories under dist/.  A path is the sequence of  *)
(* its components below dist/; files maps a path to the page that wrote    *)
(* it (0: an earlier run).                                                 *)
(***************************************************************************)
pagesChildFirst ==
    << [path |-> "", output_file |-> << "index.html" >>],
       [path |-> "ru", output_file |-> << "ru", "index.html" >>],
       [path |-> "musician-ru",
        output_file |-> << "musician", "ru", "index.html" >>],
       [path |-> "musician", output_file |-> << "musician", "index.html" >>],
       [path |-> "post", output_file |-> << "post", "index.html" >>],
       [path |-> "commercial", output_file |-> << "commercial", "index.html" >>],
       [path |-> "portfolio", output_file |-> << "portfolio", "index.html" >>],
       [path |-> "ccc", output_file |-> << "brother", "index.html" >>],
       [path |-> "bs", output_file |-> << "bs", "index.html" >>],
       [path |-> "bs-ru", output_file |-> << "bs", "ru", "index.html" >>] >>

\* the site structure, in the order the dict is iterated
pages ==
    << [path |-> "", output_file |-> << "index.html" >>],
       [path |-> "ru", output_file |-> << "ru", "index.html" >>],
       [path |-> "musician", output_file |-> << "musician", "index.html" >>],
       [path |-> "musician-ru",
        output_file |-> << "musician", "ru", "index.html" >>],
       [path |-> "post", output_file |-> << "post", "index.html" >>],
       [path |-> "commercial", output_file |-> << "commercial", "index.html" >>],
       [path |-> "portfolio", output_file |-> << "portfolio", "index.html" >>],
       [path |-> "ccc", output_file |-> << "brother", "index.html" >>],
       [path |-> "bs", output_file |-> << "bs", "index.html" >>],
       [path |-> "bs-ru", output_file |-> << "bs", "ru", "index.html" >>] >>

\* os.path.dirname
dirname(f) == SubSeq(f, 1, Len(f) - 1)

\* os.path.join(base_output_dir, os.path.dirname(output_file)), below dist/
OutputDir(i) == dirname(pages[i].output_file)

\* 'musician' in path or path == 'ccc'
UsesMusician(i) ==
    pages[i].path \in {"musician", "musician-ru"} \/ pages[i].path = "ccc"

\* the path p lies in the directory d or below it
IsPrefix(d, p) == Len(d) <= Len(p) /\ SubSeq(p, 1, Len(d)) = d

\* shutil.rmtree(d)
rmtree(fs, d) == [p \in { q \in DOMAIN fs : ~IsPrefix(d, q) } |-> fs[p]]

\* what download_website of page i can write: its index.html and a resource
\* file in a category directory, both below its output_dir
IndexFile(i) == OutputDir(i) \o << "index.html" >>
ResourceFile(i) == OutputDir(i) \o << "images", "photo.jpg" >>

\* what an earlier run left in dist/
OldDist == { << "index.html" >>, << "musician", "index.html" >> }

\* the variables of one downloader's run, which the loop does not look at
perpage == << dl, doc, browser, resources, tasks, downloaded_urls,
              resource_mapping, resources_to_download, dirs, processed_html,
              indexHtml, faults, dry_run, requested >>

SiteInit ==
    /\ dl = "site"
    /\ pc = "clean"
    /\ page = 0
    /\ saved = << >>
    /\ \E old \in SUBSET OldDist : files = [p \in old |-> 0]
    /\ raised = FALSE
    /\ doc = << >>
    /\ browser = "none"
    /\ resources = {}
    /\ tasks = NoTasks
    /\ downloaded_urls = {}
    /\ resource_mapping = NoMapping
    /\ resources_to_download = {}
    /\ dirs = {}
    /\ processed_html = << >>
    /\ indexHtml = << >>
    /\ faults = {}
    /\ dry_run = FALSE
    /\ requested = {}

\* shutil.rmtree(base_output_dir); os.makedirs(base_output_dir)
CleanDist ==
    /\ dl = "site" /\ pc = "clean"
    /\ files' = rmtree(files, << >>)
    /\ page' = 1
    /\ pc' = "page"
    /\ UNCHANGED << perpage, raised, saved >>

\* the next page of the table: its downloader is built and download_website
\* starts; MusicianDownloader's removes its output_dir first
NewDownloader ==
    /\ dl = "site" /\ pc = "page"
    /\ files' = IF UsesMusician(page) THEN rmtree(files, OutputDir(page))
                                      ELSE files
    /\ pc' = "mirror"
    /\ UNCHANGED << perpage, raised, saved, page >>

\* download_website of the page returns, having written the files w below
\* its output_dir, or (MusicianDownloader only) raises, which ends the loop
DownloadWebsite ==
    /\ dl = "site" /\ pc = "mirror"
    /\ \E w \in SUBSET {IndexFile(page), ResourceFile(page)} :
       \E ok \in BOOLEAN :
         /\ ok \/ (UsesMusician(page) /\ IndexFile(page) \notin w)
         /\ files' = [p \in DOMAIN files \cup w |->
                         IF p \in w THEN page ELSE files[p]]
         /\ saved' = [i \in DOMAIN saved \cup {page} |->
                         IF i = page THEN w ELSE saved[i]]
         /\ raised' = ~ok
         /\ IF ok /\ page < Len(pages)
            THEN page' = page + 1 /\ pc' = "page"
            ELSE page' = page /\ pc' = "done"
    /\ UNCHANGED perpage

SiteNext ==
    \/ CleanDist
    \/ NewDownloader
    \/ DownloadWebsite

SiteSpec == SiteInit /\ [][SiteNext]_vars

(***************************************************************************)
(* Properties.                                                             *)
(***************************************************************************)
Terminal == {"Saved", "NotFound", "Failed"}

\* the tasks launched for the same (cleaned) URL as task a
SameUrl(a) == { b \in DOMAIN tasks : b # a /\ tasks[b].url = tasks[a].url }

\* C1: no two distinct URL keys of resource_mapping have the same local
\* path, in every reachable state.
LocalPathUnique ==
    \A u \in DOMAIN resource_mapping : \A v \in DOMAIN resource_mapping :
        u # v => resource_mapping[u] # resource_mapping[v]

\* C2: every fetch task issues at most 3 GET requests, and one that has
\* returned after a request ended Saved, NotFound or Failed.
AtMostThreeGets ==
    \A u \in DOMAIN tasks :
        /\ tasks[u].gets <= 3
        /\ tasks[u].st = "done" /\ tasks[u].gets > 0 => tasks[u].outcome \in Terminal

\* C3: once a URL has been fetched successfully, no other fetch task of the
\* same URL, started by the same fan-out or later, has issued a request.
AtMostOneDownloadPerUrl ==
    \A a \in DOMAIN tasks :
        tasks[a].outcome = "Saved" => \A b \in SameUrl(a) : tasks[b].gets = 0

\* C4: a task whose GET was answered 404 has returned, without a retry and
\* without a mapping entry.
NotFoundShortCircuit ==
    \A u \in DOMAIN tasks :
        tasks[u].last = "404" => tasks[u].st = "done" /\ tasks[u].outcome = "NotFound"

\* C5: a 200 answer with an empty body adds no mapping entry and writes no
\* file.
ZeroByteRejected ==
    /\ \A p \in DOMAIN files : files[p] # "empty"
    /\ \A u \in DOMAIN tasks : tasks[u].last = "empty" => tasks[u].outcome # "Saved"

\* the resources discovered from reference i of the page that have a task
FetchedFor(i) == Discover(doc[i]) \cap DOMAIN tasks

\* no task saved the URL of task u
Unmapped(u) ==
    /\ tasks[u].outcome \in {"NotFound", "Failed"}
    /\ \A b \in SameUrl(u) : tasks[b].outcome # "Saved"

\* C6: in the written document, a reference to a resource whose fetch ended
\* without a mapping still holds its original URL, and a script or img
\* reference whose URL is a key of the mapping holds the mapped path.
GracefulDegradation ==
    \A i \in DOMAIN indexHtml :
        /\ \A u \in FetchedFor(i) : Unmapped(u) => indexHtml[i].path = NoPath
        /\ doc[i].kind \in {"script", "img"} /\ doc[i].url \in DOMAIN resource_mapping
             => indexHtml[i].path = resource_mapping[doc[i].url]

\* C7: in the written document, every reference to a resource whose fetch
\* ended Saved holds that resource's local path.
EndToEndRewriting ==
    \A i \in DOMAIN indexHtml :
        \A u \in FetchedFor(i) :
            tasks[u].outcome = "Saved" => indexHtml[i].path = resource_mapping[tasks[u].url]

\* C8: process_html does not start, and has not run, while a launched fetch
\* task has not returned; a task that issued a request has by then ended
\* Saved, NotFound or Failed.
FetchRewriteBarrier ==
    pc \in {"rewrite", "xrewrite"} \/ processed_html # << >>
        => \A u \in DOMAIN tasks :
              /\ tasks[u].st = "done"
              /\ tasks[u].gets > 0 => tasks[u].outcome \in Terminal

\* C8 witness: the rewrite pass is about to start after a fan-out of several
\* tasks with different outcomes.
FetchRewriteBarrierWitness ==
    /\ pc = "rewrite"
    /\ \E a \in DOMAIN tasks : \E b \in DOMAIN tasks :
          tasks[a].outcome = "Saved" /\ tasks[b].outcome = "Failed"

\* C9: a key of resource_mapping is never removed and its value never
\* changes; a later insertion for the same URL leaves the first path.
MappingMonotone ==
    [][\A u \in DOMAIN resource_mapping :
          u \in DOMAIN resource_mapping' /\ resource_mapping'[u] = resource_mapping[u]]_vars

\* C9 witness: two tasks of the same URL have both inserted it.
MappingMonotoneWitness ==
    \E a \in DOMAIN tasks :
        /\ tasks[a].outcome = "Saved"
        /\ \E b \in SameUrl(a) : tasks[b].outcome = "Saved"

\* C10: a step of process_html leaves resource_mapping as it was.
RewriteLeavesMapping ==
    [][(pc \in {"rewrite", "xrewrite"}) => (resource_mapping' = resource_mapping)]_vars

\* the entries of the srcset es whose URL is a key of the mapping m, in the
\* order of es
MappedEntries(es, m) == SelectSeq(es, LAMBDA e : e.url \in DOMAIN m)

\* C11: in the document written by a run in which no stage raised, the
\* srcset of a source element holds, for each entry whose URL is mapped, the
\* local path followed by the entry's descriptor, in the original order, and
\* holds nothing else.
SrcsetIntegrity ==
    \A i \in DOMAIN indexHtml :
        doc[i].kind = "source" /\ faults = {} =>
            LET sel == MappedEntries(doc[i].parts, resource_mapping)
            IN  /\ indexHtml[i].path = NoPath
                /\ indexHtml[i].parts =
                     [k \in DOMAIN sel |->
                        OutPart(sel[k].url, resource_mapping[sel[k].url], sel[k].desc)]

\* C12: in the written document, a style whose background-image URL is
\* mapped holds the mapped path inside that url(..), and every other piece
\* of the style string is as it was in the page.
StyleSubstitutionLocal ==
    \A i \in DOMAIN indexHtml :
        doc[i].kind = "style" /\ doc[i].url \in DOMAIN resource_mapping =>
            /\ indexHtml[i].path = resource_mapping[doc[i].url]
            /\ indexHtml[i].parts = Kept(doc[i].parts)

\* page.goto returned: the page has been loaded
Loaded == pc \notin {"new", "goto"} /\ "goto" \notin faults

\* C13: a run in which one stage raised after the page was loaded ends with
\* the rewritten document written to index.html.
BestEffortSave ==
    pc = "done" /\ Loaded /\ Cardinality(faults) = 1 => indexHtml # << >>

\* no snapshot of the page could be had: navigation raised and, where the
\* code then asks for the page's content, that raised too
NoSnapshot ==
    "goto" \in faults /\ (dl = "WD" => "xcontent" \in faults)

\* C14: a run that could get no snapshot ends with the exception handed to
\* the caller and no index.html written.
FatalPipelineFailure ==
    pc = "done" /\ NoSnapshot => raised /\ indexHtml = << >>

\* C15: once the fetch tasks run, download_website goes on to write
\* index.html (or a stage of its own raises), whatever answers the tasks get.
PerResourceFailuresNonFatal ==
    (pc = "gather") ~> (indexHtml # << >> \/ faults # {})

\* C16: a stored image lies under images/thumbnails exactly when its URL
\* matches the thumbnail convention or its HEAD probe reported less than
\* 5 KiB, and under images otherwise.
ThumbnailRouting ==
    \A u \in DOMAIN tasks :
        tasks[u].outcome = "Saved" /\ tasks[u].path.subdir \in {"images", "images/thumbnails"}
            => (tasks[u].path.subdir = "images/thumbnails"
                  <=> \/ WDIsThumbnail(tasks[u].url)
                      \/ tasks[u].probe # NoProbe /\ tasks[u].probe < 5 * 1024)

Categories == {"css", "js", "images", "images/thumbnails", "fonts", "other"}

\* C17: every URL handed to the fetcher that is not a data: URL is requested,
\* and a stored resource lies under exactly one of the six categories.
ClassificationTotal ==
    \A u \in DOMAIN tasks :
        /\ ~IsData(tasks[u].url) => tasks[u].gets > 0
        /\ tasks[u].path # NoPath => tasks[u].path.subdir \in Categories

\* the path of task u without its digest suffix
Plain(u) == [tasks[u].path EXCEPT !.hash = 0]

\* C18: an allocated file name keeps the URL's basename, and carries the
\* digest of the URL only if the un-suffixed path is on disk or mapped, or the
\* name is noroot.png.
FilenameAllocation ==
    \A u \in DOMAIN tasks :
        tasks[u].path # NoPath =>
            /\ tasks[u].path.stem = tasks[u].url.stem
            /\ tasks[u].path.hash \in {0, Md5Prefix(tasks[u].url)}
            /\ tasks[u].path.hash # 0 =>
                  \/ Plain(u) \in DOMAIN files
                  \/ Plain(u) \in Values(resource_mapping)
                  \/ tasks[u].url.stem = "noroot" /\ tasks[u].url.ext = ".png"

\* C19: every URL collect_resources returned is absolute.
DiscoveryAbsolute ==
    \A u \in resources : ~StartsWithSlash(u)

\* collect_resources has returned
Collected ==
    pc \notin {"new", "goto", "interact", "collect"} /\ faults \cap {"goto", "collect"} = {}

\* C20: for a srcset that collect_resources read, the URL of every entry is
\* in the set it returned, and the attribute's whole string is not, unless
\* that string is the URL of an entry.
SrcsetDiscovery ==
    \A i \in DOMAIN doc :
        doc[i].kind = "source" /\ Collected =>
            /\ (dl = "MD" => Visible(doc[i]))
                  => \A k \in DOMAIN doc[i].parts : doc[i].parts[k].url \in resources
            /\ doc[i].url \in resources
                  => \E k \in DOMAIN doc[i].parts : doc[i].parts[k].url = doc[i].url

\* C21: no request is issued for a data: URL (no GET, no HEAD probe), no
\* file is written for it, and it is never a key of resource_mapping.
DataNeverFetched ==
    /\ \A u \in DOMAIN tasks :
          IsData(u) \/ IsData(tasks[u].url) =>
              /\ tasks[u].gets = 0
              /\ tasks[u].probe = NoProbe
              /\ tasks[u].path = NoPath
    /\ \A k \in DOMAIN resource_mapping : ~IsData(k)

\* C21 witness: a run that discovered a data: URL beside a resource it
\* fetched has written its document.
DataNeverFetchedWitness ==
    /\ pc = "done"
    /\ indexHtml # << >>
    /\ \E u \in resources : IsData(u)
    /\ \E v \in DOMAIN tasks : tasks[v].outcome = "Saved"

\* C22: a sub-directory exists under the output root only if a file lies in
\* it: none is created before a file of its category is written, and a fetch
\* that ends NotFound or Failed leaves none behind.
LazyDirectoryCreation ==
    \A d \in dirs : \E p \in DOMAIN files : p.subdir = d

\* C26: once the browser is launched, browser.close() is eventually called.
BrowserReleased ==
    (browser = "open") ~> (browser = "closed")

\* C23: a dry run of process_html_file changes nothing: no step writes or
\* removes a file, creates or removes a directory, issues an HTTP request or
\* writes index.html.
DryRunChangesNothing ==
    [][dry_run => /\ files' = files
                  /\ dirs' = dirs
                  /\ requested' = requested
                  /\ indexHtml' = indexHtml]_vars

\* a finished dry run over a page with an inline image, an external image
\* and a style block, next to the assets of an earlier run
DryRunChangesNothingWitness ==
    /\ dl = "split" /\ dry_run /\ pc = "done"
    /\ files # NoFiles
    /\ Base64Images(doc) # {} /\ ExternalImages(doc) # {}
    /\ StyleBlocks(doc) # {}

\* the stylesheet links of the document d
StylesheetLinks(d) == { i \in DOMAIN d : d[i].kind = "link" }

\* C24: after consolidate_css in a real run, no two stylesheet links of the
\* document have the same href.
NoDuplicateStylesheets ==
    dl = "split" /\ ~dry_run /\ pc = "write" =>
        \A i \in StylesheetLinks(doc) : \A j \in StylesheetLinks(doc) :
            doc[i].val = doc[j].val => i = j

\* C25: in download_complete_site, every file saved for a page (its
\* index.html, its resource files) is still there, as that page wrote it,
\* after every later step of the loop: no later page's cleanup deletes it.
SiteOutputPreserved ==
    dl = "site" =>
        \A i \in DOMAIN saved : \A p \in saved[i] :
            p \in DOMAIN files /\ files[p] = i

\* the loop has ended with every page of the table saved
SiteOutputPreservedWitness ==
    /\ dl = "site" /\ pc = "done" /\ ~raised
    /\ \A i \in DOMAIN pages :
          i \in DOMAIN saved /\ saved[i] = {IndexFile(i), ResourceFile(i)}
=============================================================================
